---- MODULE Spec2Model ----
(***************************************************************************)
(* Model of src/scrapers/scraper.py: the Craigslist housing scraper.       *)
(*                                                                         *)
(* Text is modelled run-length encoded: a string is a sequence of runs     *)
(* [c |-> character, n |-> repetitions >= 1] in which neighbouring runs    *)
(* hold different characters, so that two strings are equal exactly when   *)
(* their encodings are equal and a field of 2049 characters costs one run. *)
(* strip(), slicing, split(), startswith() and concatenation are computed  *)
(* on that encoding as Python computes them on the characters.             *)
(***************************************************************************)
EXTENDS Integers, Sequences, FiniteSets, TLC

\* ------------------------------------------------------------------------
\* The records that pass through the scraper
\* ------------------------------------------------------------------------

\* the script[type="application/ld+json"] block of a search page: missing,
\* not JSON, or JSON with an itemListElement list
LdAbsent == [kind |-> "absent"]

LdInvalid == [kind |-> "invalid"]

LdValid(items) == [kind |-> "valid", items |-> items]

\* a listing dict
Listing(url, address, price, bedrooms, bathrooms) ==
    [url |-> url, address |-> address, price |-> price,
     bedrooms |-> bedrooms, bathrooms |-> bathrooms]

\* a JSON-LD value of a detail page: its "address" and, under
\* "itemReviewed", a nested value that may carry one
LdDict(address, reviewed) ==
    [kind |-> "dict", address |-> address, reviewed |-> reviewed]

\* an "address" value: none, a dict of parts, or a string
AddrNone == [t |-> "none"]

AddrDict(street, locality, region) ==
    [t |-> "dict", street |-> street, locality |-> locality, region |-> region]

AddrStr(a) == [t |-> "str", s |-> a]

\* an entry of itemListElement: the parts of item.address and the
\* numberOfBedrooms and numberOfBathroomsTotal values
Item(street, locality, region, beds, baths) ==
    [street |-> street, locality |-> locality, region |-> region,
     beds |-> beds, baths |-> baths]

\* a .result-row element: its a.result-title (text and href), its
\* span.result-price, its div.price and its .result-hood
Row(hasLink, title, href, span, div, hood) ==
    [hasLink |-> hasLink, title |-> title, href |-> href,
     span |-> span, div |-> div, hood |-> hood]

\* a search page, as the selectors and the pattern see it
Doc(rows, ld, anchors, divPrices, spanPrices) ==
    [rows |-> rows, ld |-> ld, anchors |-> anchors,
     divPrices |-> divPrices, spanPrices |-> spanPrices]

\* a detail page, as extract_address_from_detail sees it
Page(addrEl, mapPrev, scripts, attrs, body) ==
    [addrEl |-> addrEl, mapPrev |-> mapPrev, scripts |-> scripts,
     attrs |-> attrs, body |-> body]

\* ------------------------------------------------------------------------
\* Strings
\* ------------------------------------------------------------------------

Run(c, n) == [c |-> c, n |-> n]

\* c * n
Rep(c, n) == IF n <= 0 THEN <<>> ELSE <<Run(c, n)>>

\* s + t
Cat(s, t) ==
    IF s = <<>> THEN t
    ELSE IF t = <<>> THEN s
    ELSE IF s[Len(s)].c = t[1].c
         THEN SubSeq(s, 1, Len(s) - 1)
                \o <<Run(t[1].c, s[Len(s)].n + t[1].n)>>
                \o Tail(t)
         ELSE s \o t

RECURSIVE Str(_)
\* the string literal whose characters are the tuple chars
Str(chars) ==
    IF chars = <<>> THEN <<>>
    ELSE Cat(Rep(chars[1], 1), Str(Tail(chars)))

RECURSIVE StrLen(_)
\* len(s)
StrLen(s) == IF s = <<>> THEN 0 ELSE s[1].n + StrLen(Tail(s))

RECURSIVE Take(_, _)
\* s[:k]
Take(s, k) ==
    IF s = <<>> \/ k <= 0 THEN <<>>
    ELSE IF s[1].n >= k THEN <<Run(s[1].c, k)>>
    ELSE <<s[1]>> \o Take(Tail(s), k - s[1].n)

RECURSIVE Drop(_, _)
\* s[k:]
Drop(s, k) ==
    IF s = <<>> \/ k <= 0 THEN s
    ELSE IF s[1].n > k THEN <<Run(s[1].c, s[1].n - k)>> \o Tail(s)
    ELSE Drop(Tail(s), k - s[1].n)

\* s.startswith(p)
StartsWith(s, p) == Take(s, StrLen(p)) = p

IsSpace(c) == c = " "

LStrip(s) == IF s # <<>> /\ IsSpace(s[1].c) THEN Tail(s) ELSE s

RStrip(s) ==
    IF s # <<>> /\ IsSpace(s[Len(s)].c) THEN SubSeq(s, 1, Len(s) - 1) ELSE s

\* s.strip()
Strip(s) == RStrip(LStrip(s))

RECURSIVE Before(_, _)
\* s.split(ch)[0]: the text before the first occurrence of ch
Before(s, ch) ==
    IF s = <<>> \/ s[1].c = ch THEN <<>>
    ELSE <<s[1]>> \o Before(Tail(s), ch)

RECURSIVE FromFirst(_, _)
\* the text from the first occurrence of ch on (empty when ch is not in s)
FromFirst(s, ch) ==
    IF s = <<>> THEN <<>>
    ELSE IF s[1].c = ch THEN s
    ELSE FromFirst(Tail(s), ch)

\* s.split(ch, 1)[-1]: the text after the first ch, all of s without one
AfterFirst(s, ch) ==
    IF FromFirst(s, ch) = <<>> THEN s ELSE Drop(FromFirst(s, ch), 1)

LowerChar(c) == IF c = "A" THEN "a" ELSE c

RECURSIVE Lower(_)
\* s.lower()
Lower(s) ==
    IF s = <<>> THEN <<>>
    ELSE Cat(Rep(LowerChar(s[1].c), s[1].n), Lower(Tail(s)))

\* Python's truth value of a string
Truthy(s) == s # <<>>

\* a or b, on strings
OrElse(a, b) == IF Truthy(a) THEN a ELSE b

\* An optional value: Python's None, or a value.
None == [has |-> FALSE, val |-> <<>>]

Some(v) == [has |-> TRUE, val |-> v]

\* (x or ""): None and "" both give ""
OrEmpty(x) == IF x.has THEN x.val ELSE <<>>

\* ------------------------------------------------------------------------
\* Literals of the program
\* ------------------------------------------------------------------------

\* "https://sfbay.craigslist.org"
BASE_URL ==
    Str(<<"h","t","t","p","s",":","/","/","s","f","b","a","y",".",
          "c","r","a","i","g","s","l","i","s","t",".","o","r","g">>)

\* "N/A", the value the code puts in place of a missing field
NA == Str(<<"N","/","A">>)

\* "unknown", the value the specification names for a missing field
UNKNOWN == Str(<<"u","n","k","n","o","w","n">>)

HTTP == Str(<<"h","t","t","p">>)

SLASH == Str(<<"/">>)

DOT_HTML == Str(<<".","h","t","m","l">>)

COMMA_SPACE == Str(<<","," ">>)

ADDRESS_COLON == Str(<<"a","d","d","r","e","s","s",":">>)

ADDRESS_SPACE_COLON == Str(<<"a","d","d","r","e","s","s"," ",":">>)

LowercaseLetters ==
    {"a","b","c","d","e","f","g","h","i","j","k","l","m",
     "n","o","p","q","r","s","t","u","v","w","x","y","z"}

Digits == {"0","1","2","3","4","5","6","7","8","9"}

\* ------------------------------------------------------------------------
\* normalize_listing_url
\* ------------------------------------------------------------------------

normalize_listing_url(href) ==
    IF ~Truthy(href) THEN <<>>
    ELSE LET h1 == Before(Strip(href), "#")
             h2 == IF StartsWith(h1, SLASH) THEN Cat(BASE_URL, h1) ELSE h1
         IN  IF ~StartsWith(h2, HTTP) THEN <<>> ELSE h2

\* ------------------------------------------------------------------------
\* The search page
\*
\* A document is [rows, ld, anchors, divPrices, spanPrices]:
\*   rows        the .result-row elements, each
\*               [hasLink, title, href, span, div, hood]: whether the row has
\*               an a.result-title, that element's text and href attribute
\*               (optional), and the texts (optional) of the row's
\*               span.result-price, div.price and .result-hood elements;
\*   ld          the script#ld_searchpage_results block: [kind |-> "absent"],
\*               [kind |-> "invalid"] (not JSON) or [kind |-> "valid", items];
\*               an item is [street, locality, region, beds, baths], the
\*               counts optional and already str()-ed;
\*   anchors     the href of every a[href] outside the rows, in order;
\*   divPrices, spanPrices   the texts of the div.price and span.result-price
\*               elements outside the rows, in order.
\* get_text(strip=True) of an element with one text node is Strip of it.
\* ------------------------------------------------------------------------

get_text_strip(text) == Strip(text)

\* every a[href] of the document, the rows' links first
AllAnchors(doc) ==
    LET linked == SelectSeq(doc.rows, LAMBDA r : r.hasLink /\ r.href.has)
    IN  [i \in 1..Len(linked) |-> linked[i].href.val] \o doc.anchors

\* every div.price of the document
AllDivPrices(doc) ==
    LET with == SelectSeq(doc.rows, LAMBDA r : r.div.has)
    IN  [i \in 1..Len(with) |-> with[i].div.val] \o doc.divPrices

\* every span.result-price of the document
AllSpanPrices(doc) ==
    LET with == SelectSeq(doc.rows, LAMBDA r : r.span.has)
    IN  [i \in 1..Len(with) |-> with[i].span.val] \o doc.spanPrices

\* one iteration of the loop of get_listings_from_html
RowListing(row) ==
    LET price_el == IF row.span.has THEN row.span ELSE row.div
        title    == IF row.hasLink THEN get_text_strip(row.title) ELSE <<>>
        href     == IF row.hasLink THEN OrEmpty(row.href) ELSE <<>>
        url      == normalize_listing_url(href)
        price    == Strip(IF price_el.has THEN get_text_strip(price_el.val)
                          ELSE <<>>)
        location == Strip(IF row.hood.has THEN get_text_strip(row.hood.val)
                          ELSE <<>>)
        address  == OrElse(location, OrElse(title, NA))
    IN  Listing(url, address, price, <<>>, NA)

\* get_listings_from_html, were it to drop the rows whose link is rejected
get_listings_from_html_dropping(doc) ==
    LET usable == SelectSeq(doc.rows, LAMBDA r : Truthy(RowListing(r).url))
    IN  [k \in 1..Len(usable) |-> RowListing(usable[k])]

get_listings_from_html(doc) ==
    IF doc.rows = <<>> THEN <<>>
    ELSE [i \in 1..Len(doc.rows) |-> RowListing(doc.rows[i])]

RECURSIVE Join(_, _)
\* sep.join(parts)
Join(parts, sep) ==
    IF parts = <<>> THEN <<>>
    ELSE IF Len(parts) = 1 THEN parts[1]
    ELSE Cat(Cat(parts[1], sep), Join(Tail(parts), sep))

\* one iteration of the loop of get_listings_from_jsonld
ItemListing(item) ==
    LET address_parts ==
            SelectSeq(<<item.street, item.locality, item.region>>, Truthy)
        address == IF address_parts # <<>>
                   THEN Join(address_parts, COMMA_SPACE)
                   ELSE OrElse(item.locality, NA)
        bedrooms  == IF item.beds.has THEN item.beds.val ELSE NA
        bathrooms == IF item.baths.has THEN item.baths.val ELSE NA
    IN  Listing(<<>>, address, <<>>, bedrooms, bathrooms)

get_listings_from_jsonld(doc) ==
    IF doc.ld.kind # "valid" THEN <<>>
    ELSE [i \in 1..Len(doc.ld.items) |-> ItemListing(doc.ld.items[i])]

RECURSIVE SplitSlash(_, _)
\* s.split("/"), cur being the piece under construction
SplitSlash(s, cur) ==
    IF s = <<>> THEN <<cur>>
    ELSE IF s[1].c = "/"
         THEN <<cur>> \o [i \in 1..(s[1].n - 1) |-> <<>>]
                \o SplitSlash(Tail(s), <<>>)
         ELSE SplitSlash(Tail(s), cur \o <<s[1]>>)

\* [a-z]+ matches the whole of s
IsLowerWord(s) == s # <<>> /\ \A i \in 1..Len(s) : s[i].c \in LowercaseLetters

RECURSIVE DropDigits(_)
DropDigits(s) ==
    IF s # <<>> /\ s[1].c \in Digits THEN DropDigits(Tail(s)) ELSE s

\* \d+\.html matches a prefix of s
DigitsThenHtml(s) ==
    /\ s # <<>> /\ s[1].c \in Digits
    /\ StartsWith(DropDigits(s), DOT_HTML)

\* re.compile(r"/[a-z]+/[a-z]+/d/[^/]+/\d+\.html").search(h): between two
\* slashes [a-z]+ and [^/]+ span a whole piece of h.split("/")
PatternSearch(h) ==
    LET seg == SplitSlash(h, <<>>)
    IN  \E j \in 2..(Len(seg) - 4) :
            /\ IsLowerWord(seg[j])
            /\ IsLowerWord(seg[j + 1])
            /\ seg[j + 2] = Str(<<"d">>)
            /\ seg[j + 3] # <<>>
            /\ DigitsThenHtml(seg[j + 4])

InSeq(x, s) == \E i \in 1..Len(s) : s[i] = x

RECURSIVE CollectUrls(_, _)
\* the loop of get_listing_urls_from_html, urls being the list so far
\* (seen holds exactly the members of urls)
CollectUrls(hs, urls) ==
    IF hs = <<>> THEN urls
    ELSE LET h    == hs[1]
             full == normalize_listing_url(
                         IF ~StartsWith(h, HTTP) THEN Cat(BASE_URL, h) ELSE h)
         IN  IF PatternSearch(h) /\ Truthy(full) /\ ~InSeq(full, urls)
             THEN CollectUrls(Tail(hs), Append(urls, full))
             ELSE CollectUrls(Tail(hs), urls)

get_listing_urls_from_html(doc) == CollectUrls(AllAnchors(doc), <<>>)

get_prices_from_html(doc) ==
    LET els == IF AllDivPrices(doc) # <<>> THEN AllDivPrices(doc)
               ELSE AllSpanPrices(doc)
    IN  [i \in 1..Len(els) |-> get_text_strip(els[i])]

\* ------------------------------------------------------------------------
\* _normalize_listings, parse_listings
\* ------------------------------------------------------------------------

\* NormalizeRow, were it to leave an empty bedrooms as it is
NormalizeRow_no_bedroom_sentinel(r) ==
    [url       |-> Strip(OrElse(r.url, <<>>)),
     address   |-> OrElse(Strip(OrElse(r.address, <<>>)), NA),
     price     |-> OrElse(Strip(OrElse(r.price, <<>>)), NA),
     bedrooms  |-> Strip(OrElse(r.bedrooms, <<>>)),
     bathrooms |-> OrElse(Strip(OrElse(r.bathrooms, <<>>)), NA),
     source    |-> "craigslist"]

\* the body of the loop of _normalize_listings, for a row that is kept
NormalizeRow(r) ==
    [url       |-> Strip(OrElse(r.url, <<>>)),
     address   |-> OrElse(Strip(OrElse(r.address, <<>>)), NA),
     price     |-> OrElse(Strip(OrElse(r.price, <<>>)), NA),
     bedrooms  |-> OrElse(Strip(OrElse(r.bedrooms, <<>>)), NA),
     bathrooms |-> OrElse(Strip(OrElse(r.bathrooms, <<>>)), NA),
     source    |-> "craigslist"]

_normalize_listings(ls) ==
    LET kept == SelectSeq(ls, LAMBDA r : Truthy(Strip(OrElse(r.url, <<>>))))
    IN  [i \in 1..Len(kept) |-> NormalizeRow(kept[i])]

\* MergeColumns, were it to read the price one position further on
MergeColumns_price_off_by_one(from_json, urls, prices) ==
    [i \in 1..Len(from_json) |->
        [from_json[i] EXCEPT
            !.url   = IF i <= Len(urls) THEN urls[i] ELSE @,
            !.price = IF i + 1 <= Len(prices)
                      THEN Strip(OrElse(prices[i + 1], <<>>)) ELSE @]]

\* the positional merge of parse_listings
MergeColumns(from_json, urls, prices) ==
    [i \in 1..Len(from_json) |->
        [from_json[i] EXCEPT
            !.url   = IF i <= Len(urls) THEN urls[i] ELSE @,
            !.price = IF i <= Len(prices)
                      THEN Strip(OrElse(prices[i], <<>>)) ELSE @]]

parse_listings(doc) ==
    LET from_html == get_listings_from_html(doc)
    IN  IF from_html # <<>> THEN _normalize_listings(from_html)
        ELSE _normalize_listings(
                 MergeColumns(get_listings_from_jsonld(doc),
                              get_listing_urls_from_html(doc),
                              get_prices_from_html(doc)))

\* ------------------------------------------------------------------------
\* The detail page
\*
\* A detail page is [addrEl, mapPrev, scripts, attrs, body]:
\*   addrEl   the text (optional) of the first of .mapaddress,
\*            [class*='mapaddress'], div.address;
\*   mapPrev  the text (optional) of the previous sibling of #map;
\*   scripts  the script[type="application/ld+json"] blocks, each
\*            [kind |-> "invalid"]  json.loads raises (not JSON, no string),
\*            [kind |-> "other"]    JSON that is no object,
\*            [kind |-> "dict", address, reviewed]: address an address value
\*            and reviewed [t |-> "absent"] (itemReviewed missing or falsy),
\*            [t |-> "dict", address] or [t |-> "scalar"] (a truthy value
\*            with no .get); an address value is [t |-> "none"] (missing,
\*            null or empty), [t |-> "dict", street, locality, region],
\*            [t |-> "str", s] or [t |-> "other"] (a list, a number);
\*   attrs    the texts of the .attrgroup span elements;
\*   body     [has, group]: whether #postingbody / .posting-body exists and
\*            group(1) (optional) of the street pattern's first match in it.
\* The result is [raised, res]: the exception escaped, or the value returned.
\* ------------------------------------------------------------------------

Returned(v) == [raised |-> FALSE, res |-> v]

Raised == [raised |-> TRUE, res |-> None]

\* an address value's truth value
AddrTruthy(a) ==
    \/ a.t = "dict"
    \/ a.t = "other"
    \/ a.t = "str" /\ Truthy(a.s)

RECURSIVE ScanScripts(_)
\* the loop over the JSON-LD blocks: [hit |-> "return" | "raise" | "none"]
ScanScripts(scripts) ==
    IF scripts = <<>> THEN [hit |-> "none", found |-> <<>>]
    ELSE LET sc == scripts[1]
             next == ScanScripts(Tail(scripts))
         IN  IF sc.kind # "dict" THEN next
             ELSE IF ~AddrTruthy(sc.address) /\ sc.reviewed.t = "scalar"
                  THEN [hit |-> "raise", found |-> <<>>]
             ELSE LET addr == IF AddrTruthy(sc.address) THEN sc.address
                              ELSE IF sc.reviewed.t = "dict"
                                   THEN sc.reviewed.address
                                   ELSE [t |-> "none"]
                  IN  IF addr.t = "dict" /\ Truthy(addr.street)
                      THEN [hit |-> "return",
                            found |-> Join(SelectSeq(<<addr.street,
                                                       addr.locality,
                                                       addr.region>>, Truthy),
                                           COMMA_SPACE)]
                      ELSE IF addr.t = "str" /\ StrLen(addr.s) > 5
                           THEN [hit |-> "return", found |-> addr.s]
                           ELSE next

RECURSIVE ScanAttrs(_)
\* the loop over the .attrgroup spans
ScanAttrs(attrs) ==
    IF attrs = <<>> THEN None
    ELSE LET t   == Lower(get_text_strip(attrs[1]))
             val == Strip(AfterFirst(get_text_strip(attrs[1]), ":"))
         IN  IF /\ StartsWith(t, ADDRESS_COLON)
                    \/ StartsWith(t, ADDRESS_SPACE_COLON)
                /\ StrLen(val) > 5
             THEN Some(val)
             ELSE ScanAttrs(Tail(attrs))

extract_address_from_detail(page) ==
    LET el == get_text_strip(page.addrEl.val)
        mp == get_text_strip(page.mapPrev.val)
        ld == ScanScripts(page.scripts)
        at == ScanAttrs(page.attrs)
    IN  IF page.addrEl.has /\ Truthy(el) /\ StrLen(el) > 5
        THEN Returned(Some(el))
        ELSE IF page.mapPrev.has /\ Truthy(mp) /\ StrLen(mp) > 5
        THEN Returned(Some(mp))
        ELSE IF ld.hit = "raise" THEN Raised
        ELSE IF ld.hit = "return" THEN Returned(Some(ld.found))
        ELSE IF at.has THEN Returned(at)
        ELSE IF page.body.has /\ page.body.group.has
        THEN Returned(Some(Strip(page.body.group.val)))
        ELSE Returned(None)

\* A detail fetch ends [kind |-> "error"] (transport error, bad status) or
\* [kind |-> "page", page].
fetch_address_for_listing(outcome) ==
    IF outcome.kind = "error" THEN None
    ELSE IF extract_address_from_detail(outcome.page).raised THEN None
    ELSE extract_address_from_detail(outcome.page).res

\* ------------------------------------------------------------------------
\* _listing_to_row, save_listings_to_supabase
\* ------------------------------------------------------------------------

chunk_size == 100

URL_MAX == 2048

ADDRESS_MAX == 1024

PRICE_MAX == 255

BEDROOMS_MAX == 50

BATHROOMS_MAX == 50

\* _listing_to_row, were it to trim and not cut
_listing_to_row_unsliced(r) ==
    [url       |-> Strip(OrElse(r.url, <<>>)),
     address   |-> Strip(OrElse(r.address, NA)),
     price     |-> Strip(OrElse(r.price, NA)),
     bedrooms  |-> Strip(OrElse(r.bedrooms, NA)),
     bathrooms |-> Strip(OrElse(r.bathrooms, NA)),
     source    |-> "craigslist"]

_listing_to_row(r) ==
    [url       |-> Take(Strip(OrElse(r.url, <<>>)), URL_MAX),
     address   |-> Take(Strip(OrElse(r.address, NA)), ADDRESS_MAX),
     price     |-> Take(Strip(OrElse(r.price, NA)), PRICE_MAX),
     bedrooms  |-> Take(Strip(OrElse(r.bedrooms, NA)), BEDROOMS_MAX),
     bathrooms |-> Take(Strip(OrElse(r.bathrooms, NA)), BATHROOMS_MAX),
     source    |-> "craigslist"]

\* rows = [_listing_to_row(r) for r in listings if (r.get("url") or "").strip()]
RowsOf(ls) ==
    LET kept == SelectSeq(ls, LAMBDA r : Truthy(Strip(OrElse(r.url, <<>>))))
    IN  [j \in 1..Len(kept) |-> _listing_to_row(kept[j])]

Min(a, b) == IF a <= b THEN a ELSE b

\* rows[i : i + chunk_size], i counted from 0
Chunk(rs, i) == SubSeq(rs, i + 1, Min(i + chunk_size, Len(rs)))

\* ------------------------------------------------------------------------
\* Inputs: texts, result rows, structured-data items, documents
\* ------------------------------------------------------------------------

MaxRows == 2

MaxItems == 2

MaxAnchors == 2

MaxDetailFetches == 2

MaxBatches == 3

\* the sequences over S of length at most n
SeqsUpTo(S, n) == UNION {[1..k -> S] : k \in 0..n}

LISTING_DIR == Str(<<"/","e","b","y","/","a","p","a","/","d","/">>)

\* "/eby/apa/d/berkeley/7001.html"
H1 ==
    Cat(LISTING_DIR,
        Str(<<"b","e","r","k","e","l","e","y","/","7","0","0","1",
              ".","h","t","m","l">>))

\* "/eby/apa/d/oakland/7002.html"
H2 ==
    Cat(LISTING_DIR,
        Str(<<"o","a","k","l","a","n","d","/","7","0","0","2",
              ".","h","t","m","l">>))

\* "/eby/apa/d/albany/7003.html"
H3 ==
    Cat(LISTING_DIR,
        Str(<<"a","l","b","a","n","y","/","7","0","0","3",".","h","t","m","l">>))

\* H1 with a fragment: the same page as H1
H1_FRAGMENT == Cat(H1, Str(<<"#","t","o","p">>))

\* H2 with a blank before its fragment
H2_BLANK_FRAGMENT == Cat(H2, Str(<<" ","#","x">>))

\* H1 written in full
H1_ABSOLUTE == Cat(BASE_URL, H1)

\* a relative destination, which normalize_listing_url rejects
H_RELATIVE == Str(<<"e","b","y","/","7","0","0","1",".","h","t","m","l">>)

\* "/about": a link that is no listing
H_ABOUT == Str(<<"/","a","b","o","u","t">>)

\* a destination longer than URL_MAX
H_LONG == Cat(Cat(LISTING_DIR, Rep("x", URL_MAX + 10)),
              Str(<<"/","7",".","h","t","m","l">>))

TITLE == Str(<<"C","o","z","y"," ","S","t","u","d","i","o">>)

HOOD == Str(<<"(","b","e","r","k","e","l","e","y",")">>)

PRICE_2295 == Str(<<"$","2",",","2","9","5">>)

PRICE_3100 == Str(<<"$","3",",","1","0","0">>)

PRICE_PADDED == Str(<<" ","$","1"," ">>)

PRICE_9 == Str(<<"$","9">>)

BLANK == Rep(" ", 3)

MAIN_ST == Str(<<"1","2","3"," ","M","a","i","n"," ","S","t">>)

BERKELEY == Str(<<"B","e","r","k","e","l","e","y">>)

CA == Str(<<"C","A">>)

OAK_AVE == Str(<<"4","5","6"," ","O","a","k"," ","A","v","e">>)

\* the destinations a result row's link may carry
RowHrefs ==
    {Some(H1), Some(H2), Some(H1_FRAGMENT), Some(H2_BLANK_FRAGMENT),
     Some(H_RELATIVE), Some(<<>>), None}

RowSet ==
    {Row(TRUE, TITLE, h, Some(PRICE_2295), None, Some(HOOD)) : h \in RowHrefs}
    \cup {Row(FALSE, <<>>, None, Some(PRICE_2295), None, Some(HOOD))}
    \cup {Row(TRUE, TITLE, Some(H2), sp, dv, hd) :
            sp \in {None, Some(BLANK)}, dv \in {None, Some(PRICE_3100)},
            hd \in {None, Some(<<>>)}}

ItemSet ==
    {Item(MAIN_ST, BERKELEY, CA, Some(Str(<<"2">>)), None),
     Item(<<>>, <<>>, <<>>, None, Some(Str(<<"1",".","5">>))),
     Item(Cat(BLANK, OAK_AVE), <<>>, <<>>, Some(BLANK), Some(<<>>))}

AnchorSet == {H1, H2_BLANK_FRAGMENT, H_ABOUT, H1_ABSOLUTE}

\* the price elements of a document without result rows: the texts of its
\* div.price elements and of its span.result-price elements
PriceColumns ==
    {<<<<>>, <<>>>>,
     <<<<PRICE_3100>>, <<>>>>,
     <<<<BLANK, PRICE_PADDED>>, <<PRICE_9>>>>,
     <<<<PRICE_3100, BLANK, PRICE_PADDED>>, <<>>>>,
     <<<<>>, <<PRICE_9>>>>}

\* documents with result rows, bare or beside a structured-data block
RowDocs ==
    {Doc(rows, x[1], x[2], x[3], <<>>) :
        rows \in SeqsUpTo(RowSet, MaxRows) \ {<<>>},
        x \in {<<LdAbsent, <<>>, <<>>>>,
               <<LdValid(<<Item(MAIN_ST, BERKELEY, CA, None, None)>>),
                 <<H3>>, <<PRICE_9>>>>}}

\* documents without result rows
LdDocs ==
    {Doc(<<>>, ld, anchors, pr[1], pr[2]) :
        ld \in {LdAbsent, LdInvalid}
                 \cup {LdValid(items) : items \in SeqsUpTo(ItemSet, MaxItems)},
        anchors \in SeqsUpTo(AnchorSet, MaxAnchors),
        pr \in PriceColumns}

ParseDocs == RowDocs \cup LdDocs

\* a price text longer than PRICE_MAX, and one between 50 and PRICE_MAX
PRICE_HUGE == Cat(Str(<<"$">>), Rep("9", PRICE_MAX + 45))

PRICE_WORDY == Cat(Str(<<"$">>), Rep("9", 59))

HOOD_LONG == Rep("b", ADDRESS_MAX + 6)

BEDS_LONG == Rep("2", BEDROOMS_MAX + 10)

\* the i-th row of a long result page: "http" + "x" * i
FillerRow(j) ==
    Row(TRUE, Str(<<"t">>), Some(Cat(HTTP, Rep("x", j))), None, None, None)

RECURSIVE FillerRows(_, _)
\* rows lo..hi of a long result page
FillerRows(lo, hi) ==
    IF lo > hi THEN <<>>
    ELSE IF lo = hi THEN <<FillerRow(lo)>>
    ELSE LET mid == (lo + hi) \div 2
         IN  FillerRows(lo, mid) \o FillerRows(mid + 1, hi)

BigDoc(n) == Doc(FillerRows(1, n), LdAbsent, <<>>, <<>>, <<>>)

\* page lengths around the batch boundaries
BigSizes == {chunk_size, chunk_size + 1, (MaxBatches - 1) * chunk_size + 1}

ExampleRow(h) == Row(TRUE, TITLE, Some(h), Some(PRICE_2295), None, Some(HOOD))

\* the search pages of a pipeline run
PipelineDocs ==
    {Doc(<<>>, LdAbsent, <<>>, <<>>, <<>>),
     Doc(<<ExampleRow(H1)>>, LdAbsent, <<>>, <<>>, <<>>),
     Doc(<<ExampleRow(H1),
           Row(TRUE, TITLE, Some(H2_BLANK_FRAGMENT), Some(PRICE_WORDY), None,
               Some(HOOD_LONG)),
           ExampleRow(H3)>>, LdAbsent, <<>>, <<>>, <<>>),
     Doc(<<>>,
         LdValid(<<Item(MAIN_ST, BERKELEY, CA, Some(Str(<<"2">>)), None),
                   Item(<<>>, BERKELEY, <<>>, Some(BEDS_LONG),
                        Some(BEDS_LONG))>>),
         <<H1, H2>>, <<PRICE_3100>>, <<>>),
     Doc(<<Row(TRUE, TITLE, Some(H_LONG), None, Some(PRICE_HUGE), None)>>,
         LdAbsent, <<>>, <<>>, <<>>),
     Doc(<<ExampleRow(H1), ExampleRow(H1_FRAGMENT)>>, LdAbsent, <<>>, <<>>, <<>>),
     Doc(<<ExampleRow(H_RELATIVE)>>,
         LdValid(<<Item(MAIN_ST, BERKELEY, CA, None, None)>>),
         <<H3>>, <<PRICE_9>>, <<>>)}
    \cup {BigDoc(n) : n \in BigSizes}

NoBody == [has |-> FALSE, group |-> None]

\* the detail pages a fetch may return
DetailPages ==
    {Page(Some(OAK_AVE), None, <<>>, <<>>, NoBody),
     Page(None, None, <<>>, <<>>, NoBody),
     Page(Some(NA), None,
          <<LdDict(AddrStr(OAK_AVE), [t |-> "absent"])>>, <<>>, NoBody),
     Page(None, Some(OAK_AVE),
          <<LdDict(AddrStr(MAIN_ST), [t |-> "absent"])>>, <<>>, NoBody),
     Page(None, None,
          <<LdDict(AddrDict(BLANK, <<>>, <<>>), [t |-> "absent"])>>,
          <<>>, NoBody),
     Page(None, None,
          <<[kind |-> "invalid"],
            LdDict(AddrNone,
                   [address |-> AddrDict(OAK_AVE, <<>>, <<>>), t |-> "dict"])>>,
          <<>>, NoBody),
     Page(None, None, <<LdDict(AddrNone, [t |-> "scalar"])>>,
          <<Cat(Str(<<"A","d","d","r","e","s","s",":"," ">>), OAK_AVE)>>,
          NoBody),
     Page(None, None, <<LdDict(AddrStr(NA), [t |-> "absent"])>>,
          <<Str(<<"p","e","t","s",":"," ","o","k">>),
            Cat(Str(<<"A","d","d","r","e","s","s"," ",":"," ">>), OAK_AVE)>>,
          NoBody),
     Page(None, None, <<>>, <<>>,
          [has |-> TRUE, group |-> Some(Cat(OAK_AVE, Rep(" ", 1)))]),
     Page(Some(HOOD_LONG), None, <<>>, <<>>, NoBody)}

DetailOutcomes ==
    {[kind |-> "error"]} \cup {[kind |-> "page", page |-> p] : p \in DetailPages}

\* ------------------------------------------------------------------------
\* State
\* ------------------------------------------------------------------------

VARIABLES
    pc,        \* where run_pipeline stands
    args,      \* run_pipeline's arguments: save, fetch_addresses,
               \* max_detail_fetches
    env,       \* whether the environment holds the Supabase url and key
    html,      \* the search page fetched (optional)
    listings,  \* search's list of records
    i,         \* the index of search's enrichment loop
    client,    \* search's httpx.Client: "none", "open" or "closed"
    rows,      \* save_listings_to_supabase's rows
    offset,    \* the start of its next chunk
    total,     \* its count of rows upserted
    sink,      \* the rows the table has taken, in order
    trace,     \* the calls made to the outside, in order
    saved,     \* run_pipeline's count
    caught     \* the failure run_pipeline has caught and printed

vars ==
    <<pc, args, env, html, listings, i, client, rows, offset, total, sink,
      trace, saved, caught>>

Args ==
    [save : BOOLEAN, fetch_addresses : BOOLEAN,
     max_detail_fetches : 0..MaxDetailFetches]

InitCommon ==
    /\ args \in Args
    /\ env \in [creds : BOOLEAN]
    /\ html = None
    /\ listings = <<>>
    /\ i = 0
    /\ client = "none"
    /\ rows = <<>>
    /\ offset = 0
    /\ total = 0
    /\ sink = <<>>
    /\ trace = <<>>
    /\ saved = 0
    /\ caught = "none"

Init == InitCommon /\ pc = "start"

\* search: fetch_page raises; nothing in run_pipeline catches it
SearchFetchFails ==
    /\ pc = "start"
    /\ trace' = Append(trace, [op |-> "search", ok |-> FALSE])
    /\ pc' = "raised"
    /\ UNCHANGED <<args, env, html, listings, i, client, rows, offset, total,
                   sink, saved, caught>>

\* search: fetch_page returns doc, parse_listings, and either the return or
\* the opening of the client
SearchFetch(doc) ==
    /\ pc = "start"
    /\ trace' = Append(trace, [op |-> "search", ok |-> TRUE])
    /\ html' = Some(doc)
    /\ listings' = parse_listings(doc)
    /\ IF ~args.fetch_addresses \/ listings' = <<>>
       THEN pc' = "searched" /\ client' = client
       ELSE pc' = "enrich" /\ client' = "open"
    /\ i' = 0
    /\ UNCHANGED <<args, env, rows, offset, total, sink, saved, caught>>

\* Enriched, were a failed fetch to reset the address to "N/A"
Enriched_overwrite(ls, k, detail_addr) ==
    [ls EXCEPT ![k + 1].address =
        IF detail_addr.has /\ Truthy(detail_addr.val) THEN detail_addr.val
        ELSE NA]

\* listing["address"] = detail_addr, when detail_addr is truthy
Enriched(ls, k, detail_addr) ==
    IF detail_addr.has /\ Truthy(detail_addr.val)
    THEN [ls EXCEPT ![k + 1].address = detail_addr.val]
    ELSE ls

\* DetailFetch, were the loop to break one record late (i > max_detail_fetches)
DetailFetch_off_by_one(outcome) ==
    /\ pc = "enrich"
    /\ i < Len(listings)
    /\ i <= args.max_detail_fetches
    /\ LET detail_addr == fetch_address_for_listing(outcome)
       IN  /\ trace' = Append(trace, [op |-> "detail", idx |-> i,
                                      target |-> listings[i + 1].url,
                                      slept |-> i > 0, got |-> detail_addr])
           /\ listings' = Enriched(listings, i, detail_addr)
    /\ i' = i + 1
    /\ UNCHANGED <<pc, args, env, html, client, rows, offset, total, sink,
                   saved, caught>>

\* one iteration of search's loop: the sleep, the fetch, the overwrite
DetailFetch(outcome) ==
    /\ pc = "enrich"
    /\ i < Len(listings)
    /\ i < args.max_detail_fetches
    /\ LET detail_addr == fetch_address_for_listing(outcome)
       IN  /\ trace' = Append(trace, [op |-> "detail", idx |-> i,
                                      target |-> listings[i + 1].url,
                                      slept |-> i > 0, got |-> detail_addr])
           /\ listings' = Enriched(listings, i, detail_addr)
    /\ i' = i + 1
    /\ UNCHANGED <<pc, args, env, html, client, rows, offset, total, sink,
                   saved, caught>>

\* the loop ends (the list is exhausted, or the break): the client closes
\* and search returns
EnrichDone ==
    /\ pc = "enrich"
    /\ i >= Len(listings) \/ i >= args.max_detail_fetches
    /\ client' = "closed"
    /\ pc' = "searched"
    /\ UNCHANGED <<args, env, html, listings, i, rows, offset, total, sink,
                   trace, saved, caught>>

\* run_pipeline: save is off or there are no results
SkipSave ==
    /\ pc = "searched"
    /\ ~args.save \/ listings = <<>>
    /\ pc' = "done"
    /\ UNCHANGED <<args, env, html, listings, i, client, rows, offset, total,
                   sink, trace, saved, caught>>

\* SaveConfigError, were run_pipeline not to catch the RuntimeError
SaveConfigError_fatal ==
    /\ pc = "searched"
    /\ args.save /\ listings # <<>>
    /\ ~env.creds
    /\ pc' = "raised"
    /\ UNCHANGED <<args, env, html, listings, i, client, rows, offset, total,
                   sink, trace, saved, caught>>

\* save_listings_to_supabase raises RuntimeError for the missing url or key;
\* run_pipeline's except clause catches it
SaveConfigError ==
    /\ pc = "searched"
    /\ args.save /\ listings # <<>>
    /\ ~env.creds
    /\ caught' = "config"
    /\ pc' = "done"
    /\ UNCHANGED <<args, env, html, listings, i, client, rows, offset, total,
                   sink, trace, saved>>

\* save_listings_to_supabase up to its loop
SaveStart ==
    /\ pc = "searched"
    /\ args.save /\ listings # <<>>
    /\ env.creds
    /\ rows' = RowsOf(listings)
    /\ offset' = 0
    /\ total' = 0
    /\ IF rows' = <<>> THEN pc' = "done" ELSE pc' = "upsert"
    /\ UNCHANGED <<args, env, html, listings, i, client, sink, trace, saved,
                   caught>>

\* one chunk is upserted; after the last one the function returns total
UpsertOk ==
    /\ pc = "upsert"
    /\ offset < Len(rows)
    /\ trace' = Append(trace, [op |-> "upsert", ok |-> TRUE, from |-> offset,
                               size |-> Len(Chunk(rows, offset))])
    /\ sink' = sink \o Chunk(rows, offset)
    /\ total' = total + Len(Chunk(rows, offset))
    /\ offset' = offset + chunk_size
    /\ IF offset' < Len(rows)
       THEN pc' = pc /\ saved' = saved
       ELSE pc' = "done" /\ saved' = total'
    /\ UNCHANGED <<args, env, html, listings, i, client, rows, caught>>

\* UpsertFails, were save_listings_to_supabase to swallow the failure and go
\* on with the next chunk
UpsertFails_continue ==
    /\ pc = "upsert"
    /\ offset < Len(rows)
    /\ trace' = Append(trace, [op |-> "upsert", ok |-> FALSE, from |-> offset,
                               size |-> Len(Chunk(rows, offset))])
    /\ offset' = offset + chunk_size
    /\ IF offset' < Len(rows)
       THEN pc' = pc /\ saved' = saved
       ELSE pc' = "done" /\ saved' = total
    /\ UNCHANGED <<args, env, html, listings, i, client, rows, total, sink,
                   caught>>

\* the upsert of a chunk raises: save_listings_to_supabase re-raises, and
\* run_pipeline's except clause catches it
UpsertFails ==
    /\ pc = "upsert"
    /\ offset < Len(rows)
    /\ trace' = Append(trace, [op |-> "upsert", ok |-> FALSE, from |-> offset,
                               size |-> Len(Chunk(rows, offset))])
    /\ caught' = "sink"
    /\ pc' = "done"
    /\ UNCHANGED <<args, env, html, listings, i, client, rows, offset, total,
                   sink, saved>>

Next ==
    \/ SearchFetchFails
    \/ \E doc \in PipelineDocs : SearchFetch(doc)
    \/ \E outcome \in DetailOutcomes : DetailFetch(outcome)
    \/ EnrichDone
    \/ SkipSave
    \/ SaveConfigError
    \/ SaveStart
    \/ UpsertOk
    \/ UpsertFails

Spec == Init /\ [][Next]_vars

\* parse_listings on its own: the document is drawn from ParseDocs
ParseInit ==
    /\ InitCommon
    /\ pc = "parse"
    /\ args = [save |-> FALSE, fetch_addresses |-> FALSE,
               max_detail_fetches |-> 0]
    /\ env = [creds |-> FALSE]

Parse(doc) ==
    /\ pc = "parse"
    /\ html' = Some(doc)
    /\ listings' = parse_listings(doc)
    /\ pc' = "parsed"
    /\ UNCHANGED <<args, env, i, client, rows, offset, total, sink, trace,
                   saved, caught>>

ParseNext == \E doc \in ParseDocs : Parse(doc)

ParseSpec == ParseInit /\ [][ParseNext]_vars

\* ------------------------------------------------------------------------
\* Properties
\* ------------------------------------------------------------------------

\* what parse_listings returned for the page fetched
Parsed == parse_listings(html.val)

DetailEvents == SelectSeq(trace, LAMBDA e : e.op = "detail")

UpsertEvents == SelectSeq(trace, LAMBDA e : e.op = "upsert")

\* search has returned
Searched == pc \in {"searched", "upsert", "done"}

Urls(ls) == [k \in 1..Len(ls) |-> ls[k].url]

RECURSIVE FirstOccurrences(_, _)
\* s without the elements that occurred before, acc being the result so far
FirstOccurrences(s, acc) ==
    IF s = <<>> THEN acc
    ELSE FirstOccurrences(Tail(s),
                          IF InSeq(s[1], acc) THEN acc ELSE Append(acc, s[1]))

\* the normalized destination of a result row's link
RowDestination(row) ==
    normalize_listing_url(IF row.hasLink THEN OrEmpty(row.href) ELSE <<>>)

\* the text of a result row's price element, span.result-price before
\* div.price
RowPriceText(row) ==
    IF row.span.has THEN Strip(row.span.val)
    ELSE IF row.div.has THEN Strip(row.div.val)
    ELSE <<>>

\* the result rows whose destination is not rejected
UsableRows(doc) ==
    SelectSeq(doc.rows, LAMBDA r : Truthy(Strip(RowDestination(r))))

AllFieldsNonEmpty(r) ==
    /\ Truthy(r.url)
    /\ Truthy(r.address)
    /\ Truthy(r.price)
    /\ Truthy(r.bedrooms)
    /\ Truthy(r.bathrooms)

\* C1: every record search returns, and every row of every batch handed to
\* the sink, has a non-empty url, address, price, bedrooms and bathrooms.
C1_NoEmptyFieldReachesOutput ==
    /\ Searched => \A k \in 1..Len(listings) : AllFieldsNonEmpty(listings[k])
    /\ \A j \in 1..Len(UpsertEvents) :
         \A k \in 1..UpsertEvents[j].size :
            AllFieldsNonEmpty(rows[UpsertEvents[j].from + k])

\* C2 as amended: every row of every batch handed to the sink has a url of
\* at most 2048 characters, an address of at most 1024, a price of at most
\* 255 and bedrooms and bathrooms of at most 50 each.
C2_RowsWithinCodeBounds ==
    \A j \in 1..Len(UpsertEvents) :
       \A k \in 1..UpsertEvents[j].size :
          LET r == rows[UpsertEvents[j].from + k]
          IN  /\ StrLen(r.url) <= URL_MAX
              /\ StrLen(r.address) <= ADDRESS_MAX
              /\ StrLen(r.price) <= PRICE_MAX
              /\ StrLen(r.bedrooms) <= BEDROOMS_MAX
              /\ StrLen(r.bathrooms) <= BATHROOMS_MAX

\* C2 as stated: as above, with a price of at most 50 characters.
C2_PriceAtMostFifty ==
    \A j \in 1..Len(UpsertEvents) :
       \A k \in 1..UpsertEvents[j].size :
          LET r == rows[UpsertEvents[j].from + k]
          IN  /\ StrLen(r.url) <= URL_MAX
              /\ StrLen(r.address) <= ADDRESS_MAX
              /\ StrLen(r.price) <= 50
              /\ StrLen(r.bedrooms) <= BEDROOMS_MAX
              /\ StrLen(r.bathrooms) <= BATHROOMS_MAX

\* C2's case: a batch has been handed to the sink holding a row whose url,
\* address and price were each cut to their bound from a longer field.
C2_TruncatedRowHanded ==
    \E j \in 1..Len(UpsertEvents) : \E k \in 1..UpsertEvents[j].size :
          /\ StrLen(rows[UpsertEvents[j].from + k].url) = URL_MAX
          /\ StrLen(rows[UpsertEvents[j].from + k].price) = PRICE_MAX
          /\ StrLen(rows[UpsertEvents[j].from + k].address) = ADDRESS_MAX
          /\ StrLen(listings[UpsertEvents[j].from + k].url) > URL_MAX
          /\ StrLen(listings[UpsertEvents[j].from + k].price) > PRICE_MAX
          /\ StrLen(listings[UpsertEvents[j].from + k].address) > ADDRESS_MAX

\* C3: for a document with result rows, the urls of parse_listings' records
\* are the (trimmed) normalized destinations of the rows' links, the empty
\* ones removed, in row order, each url once, at its first occurrence.
C3_UrlsAreFirstOccurrences ==
    (pc = "parsed" /\ html.val.rows # <<>>) =>
        LET usable == UsableRows(html.val)
        IN  Urls(listings) =
                FirstOccurrences(
                    [k \in 1..Len(usable) |-> Strip(RowDestination(usable[k]))],
                    <<>>)

\* the document has no result rows and a valid structured-data block
LdDocParsed ==
    pc = "parsed" /\ html.val.rows = <<>> /\ html.val.ld.kind = "valid"

\* C4 as amended: for a document with no result rows and a valid
\* structured-data block of n items, u extracted urls and p extracted
\* prices, parse_listings returns min(n, u) records, and the i-th carries
\* the i-th item's address, bedrooms and bathrooms, each trimmed and "N/A"
\* when that leaves nothing, the i-th url trimmed, and the i-th price when
\* i < p and that price is not empty, otherwise "N/A".
C4_PositionalMergeTrimmed ==
    LdDocParsed =>
        LET js     == get_listings_from_jsonld(html.val)
            urls   == get_listing_urls_from_html(html.val)
            prices == get_prices_from_html(html.val)
        IN  /\ Len(listings) = Min(Len(js), Len(urls))
            /\ \A k \in 1..Len(listings) :
                 /\ listings[k].address = OrElse(Strip(js[k].address), NA)
                 /\ listings[k].bedrooms = OrElse(Strip(js[k].bedrooms), NA)
                 /\ listings[k].bathrooms = OrElse(Strip(js[k].bathrooms), NA)
                 /\ listings[k].url = Strip(urls[k])
                 /\ listings[k].price =
                        IF k <= Len(prices) /\ Truthy(prices[k])
                        THEN prices[k] ELSE NA

\* C4 as stated: the i-th record carries the i-th item's address, bedrooms
\* and bathrooms, the i-th url, and the i-th price when i < p, otherwise
\* the sentinel.
C4_PositionalMergeVerbatim ==
    LdDocParsed =>
        LET js     == get_listings_from_jsonld(html.val)
            urls   == get_listing_urls_from_html(html.val)
            prices == get_prices_from_html(html.val)
        IN  /\ Len(listings) = Min(Len(js), Len(urls))
            /\ \A k \in 1..Len(listings) :
                 /\ listings[k].address = js[k].address
                 /\ listings[k].bedrooms = js[k].bedrooms
                 /\ listings[k].bathrooms = js[k].bathrooms
                 /\ listings[k].url = urls[k]
                 /\ listings[k].price =
                        IF k <= Len(prices) THEN prices[k] ELSE NA

\* C4's case: more items than urls and more urls than prices, so that an
\* item is discarded and a record gets the sentinel for its price.
C4_ItemsOutnumberUrls ==
    /\ LdDocParsed
    /\ Len(html.val.ld.items) > Len(get_listing_urls_from_html(html.val))
    /\ Len(listings) > Len(get_prices_from_html(html.val))
    /\ Len(listings) >= 1
    /\ listings[Len(listings)].price = NA

\* C9 as amended: for a document with result rows, every record of
\* parse_listings has bedrooms "N/A", bathrooms "N/A", source "craigslist",
\* and the trimmed text of its row's price element as price, "N/A" when the
\* row has no price element or a blank one.
C9_RowRecordsCarryNA ==
    (pc = "parsed" /\ html.val.rows # <<>>) =>
        LET usable == UsableRows(html.val)
        IN  /\ Len(listings) = Len(usable)
            /\ \A k \in 1..Len(listings) :
                 /\ listings[k].bedrooms = NA
                 /\ listings[k].bathrooms = NA
                 /\ listings[k].source = "craigslist"
                 /\ listings[k].price =
                        IF Truthy(RowPriceText(usable[k]))
                        THEN RowPriceText(usable[k]) ELSE NA

\* C9 as stated: as above, with the literal "unknown" in place of an absent
\* field.
C9_RowRecordsCarryUnknown ==
    (pc = "parsed" /\ html.val.rows # <<>>) =>
        LET usable == UsableRows(html.val)
        IN  /\ Len(listings) = Len(usable)
            /\ \A k \in 1..Len(listings) :
                 /\ listings[k].bedrooms = UNKNOWN
                 /\ listings[k].bathrooms = UNKNOWN
                 /\ listings[k].source = "craigslist"
                 /\ listings[k].price =
                        IF Truthy(RowPriceText(usable[k]))
                        THEN RowPriceText(usable[k]) ELSE UNKNOWN

\* C9's case: two records from result rows, one with a price text and one
\* whose row has no price element.
C9_RowWithAndWithoutPrice ==
    /\ pc = "parsed"
    /\ Len(listings) = 2
    /\ \E r \in {html.val.rows[k] : k \in 1..Len(html.val.rows)} :
          ~r.span.has /\ ~r.div.has /\ Truthy(RowDestination(r))
    /\ listings[1].price = PRICE_2295
    /\ listings[2].price = NA

\* the document has result rows, and the link of every one is rejected
AllRowsRejected ==
    /\ pc = "parsed"
    /\ html.val.rows # <<>>
    /\ UsableRows(html.val) = <<>>

\* what the structured-data path makes of the document
FallbackRecords(doc) ==
    _normalize_listings(
        MergeColumns(get_listings_from_jsonld(doc),
                     get_listing_urls_from_html(doc),
                     get_prices_from_html(doc)))

\* C10 as amended: a document with result rows is never handed to the
\* structured-data path: every record's url is the trimmed destination of
\* one of the rows, and when the link of every row is rejected
\* parse_listings returns the empty list.
C10_NoFallbackWhenRowsExist ==
    (pc = "parsed" /\ html.val.rows # <<>>) =>
        /\ \A k \in 1..Len(listings) :
              \E j \in 1..Len(html.val.rows) :
                 listings[k].url = Strip(RowDestination(html.val.rows[j]))
        /\ AllRowsRejected => listings = <<>>

\* C10 as stated: when the link of every result row is rejected,
\* parse_listings returns the records of the structured-data path.
C10_FallsBackWhenAllRowsRejected ==
    AllRowsRejected => listings = FallbackRecords(html.val)

\* C10's case: every row is rejected and the structured-data path would have
\* yielded a record.
C10_RejectedRowsBesideStructuredData ==
    AllRowsRejected /\ FallbackRecords(html.val) # <<>>

C6_BatchesStopAtFirstFailure ==
    LET ups == UpsertEvents
    IN  /\ \A j \in 1..Len(ups) :
             /\ ups[j].from = (j - 1) * chunk_size
             /\ ups[j].size = Min(chunk_size, Len(rows) - ups[j].from)
             /\ ups[j].size >= 1
             /\ j < Len(ups) => ups[j].ok
        /\ \A j \in 1..Len(ups) :
             ups[j].ok => SubSeq(sink, ups[j].from + 1,
                                 ups[j].from + ups[j].size)
                            = SubSeq(rows, ups[j].from + 1,
                                     ups[j].from + ups[j].size)
        /\ (ups # <<>> /\ ~ups[Len(ups)].ok) =>
               /\ caught = "sink"
               /\ pc = "done"
               /\ saved = 0
               /\ listings # <<>> /\ Len(listings) = Len(Parsed)
               /\ sink = SubSeq(rows, 1, ups[Len(ups)].from)
        /\ caught = "sink" => (ups # <<>> /\ ~ups[Len(ups)].ok)
        /\ (pc = "done" /\ caught = "none" /\ ups # <<>>) =>
               (sink = rows /\ saved = Len(rows))

\* C6's case: the second batch failed after the first was upserted.
C6_SecondBatchFailed ==
    /\ caught = "sink"
    /\ Len(UpsertEvents) = 2
    /\ Len(sink) = chunk_size
    /\ Len(rows) > chunk_size

\* C7: in an enrichment pass over n records with bound b, the detail pages
\* fetched are those of the records 0..min(n, b)-1, in that order, one fetch
\* each; when the pass ends exactly min(n, b) have been fetched; every
\* record not yet visited, so every record of index >= b, is as
\* parse_listings left it, at its position.
C7_PassVisitsFirstRecordsOnce ==
    html.has =>
        LET det == DetailEvents
            was == Parsed
            n   == Len(was)
            b   == args.max_detail_fetches
        IN  /\ Len(listings) = n
            /\ Len(det) <= Min(n, b)
            /\ \A j \in 1..Len(det) :
                 /\ det[j].idx = j - 1
                 /\ det[j].target = was[j].url
                 /\ det[j].slept = (j > 1)
            /\ client = "closed" => Len(det) = Min(n, b)
            /\ client = "none" => det = <<>>
            /\ \A k \in 1..n : k > Len(det) => listings[k] = was[k]
            /\ \A k \in 1..n : listings[k].url = was[k].url

\* C7's case: a pass over more records than the bound has ended, and the
\* address of a record within the bound was overwritten.
C7_PassOverMoreThanBound ==
    /\ client = "closed"
    /\ args.max_detail_fetches >= 1
    /\ Len(listings) > args.max_detail_fetches
    /\ listings[1].address # Parsed[1].address

\* C8: a record whose detail fetch or address extraction failed is as
\* parse_listings left it; enrichment changes no field but the address; the
\* pass still visits the records after it, search returns every record, and
\* no failure of a detail fetch reaches search's caller.
C8_FailedFetchLeavesRecord ==
    html.has =>
        LET det == DetailEvents
            was == Parsed
        IN  /\ \A j \in 1..Len(det) :
                 (~det[j].got.has) =>
                     listings[det[j].idx + 1] = was[det[j].idx + 1]
            /\ \A k \in 1..Len(listings) :
                 [listings[k] EXCEPT !.address = was[k].address] = was[k]
            /\ Searched =>
                 /\ Len(listings) = Len(was)
                 /\ args.fetch_addresses =>
                       Len(det) = Min(Len(was), args.max_detail_fetches)
            /\ pc = "raised" => det = <<>>

\* C8's case: search has returned after a pass in which the first record's
\* fetch failed and the second record's address was overwritten.
C8_PassWentOnAfterFailure ==
    /\ Searched
    /\ Len(DetailEvents) >= 2
    /\ ~DetailEvents[1].got.has
    /\ DetailEvents[2].got.has
    /\ listings[1] = Parsed[1]
    /\ listings[2].address = DetailEvents[2].got.val
    /\ listings[2].address # Parsed[2].address
====
